---- MODULE Spec2Model ----
(***************************************************************************)
(* Model of the WASAPI backend of audir (audir/src/wasapi/mod.rs): the     *)
(* format negotiator (map_frame_desc / map_waveformat), the Instance with  *)
(* its physical device registry and hot-plug event queue, and the Device   *)
(* with its fence-synchronised acquire / callback / release cycle.         *)
(***************************************************************************)
EXTENDS Integers, Sequences, FiniteSets, TLC

VARIABLES
    fmt_pc,            \* position of the format conversion: "input", "encoded", "decoded"
    fmt_in,            \* the api::FrameDesc handed to map_frame_desc
    fmt_native,        \* Option<WAVEFORMATEXTENSIBLE> returned by map_frame_desc
    fmt_out,           \* Result<api::FrameDesc> returned by map_waveformat
    inst,              \* the Instance: "uninit", "created"
    os_endpoints,      \* the OS audio engine's endpoints: id -> state and data flows
    os_callbacks,      \* notification clients registered with the OS enumerator
    os_raised,         \* notifications the OS raised since the Instance was created
    physical_devices,  \* Instance.physical_devices: id -> PhysicalDevice
    event_queue,       \* the mpsc channel between NotificationClient.tx and Instance.event_rx
    polled,            \* every Event poll_events has taken from the channel so far
    clients,           \* the native IAudioClient of each endpoint id, as the backend holds it
    fences,            \* the OS event objects made by Fence::create, by handle
    devices,           \* the Devices create_device returned, in order of creation
    sessions,          \* the Sessions create_session returned, in order of creation
    rt_thread,         \* the calling thread's real-time promotions, as the OS holds them
    ret                \* what the last call on the application thread did and returned

fmt_vars == <<fmt_pc, fmt_in, fmt_native, fmt_out>>
os_vars == <<os_endpoints, os_callbacks, os_raised>>
inst_vars == <<inst, physical_devices, event_queue, polled>>
dev_vars == <<clients, fences, devices>>
session_vars == <<sessions, rt_thread>>

vars == <<fmt_pc, fmt_in, fmt_native, fmt_out, inst, os_endpoints, os_callbacks, os_raised,
          physical_devices, event_queue, polled, clients, fences, devices, sessions,
          rt_thread, ret>>

None == [tag |-> "None"]
Some(v) == [tag |-> "Some", value |-> v]

(***************************************************************************)
(* Format negotiator                                                       *)
(***************************************************************************)

\* winapi constants used by the encoder and the decoder
WAVE_FORMAT_EXTENSIBLE == 65534
WAVE_FORMAT_PCM == 1
SPEAKER_FRONT_LEFT == 1
SPEAKER_FRONT_RIGHT == 2
SPEAKER_FRONT_CENTER == 4
KSDATAFORMAT_SUBTYPE_IEEE_FLOAT == "KSDATAFORMAT_SUBTYPE_IEEE_FLOAT"
KSDATAFORMAT_SUBTYPE_PCM == "KSDATAFORMAT_SUBTYPE_PCM"

\* HRESULTs: success; of IAudioClient::IsFormatSupported, a closest match is
\* offered instead, and the format is not supported (0x88890008)
S_OK == 0
S_FALSE == 1
AUDCLNT_E_UNSUPPORTED_FORMAT == -2004287480

\* width of the native WORD fields; the DWORD fields hold the values of the
\* bounded sets below unchanged (all of them are far below 2^32)
U16 == 65536

\* value & bit != 0 for a single-bit mask
HasBit(value, bit) == (value \div bit) % 2 = 1

Formats == {"F32", "U32"}
ChannelNames == {"FRONT_LEFT", "FRONT_RIGHT", "FRONT_CENTER"}
SampleRates == {44100, 48000, 96000}

FrameDescs == [format : Formats, channels : SUBSET ChannelNames, sample_rate : SampleRates]

\* api::FrameDesc::num_channels: the number of set bits of the channel mask
num_channels(frame_desc) == Cardinality(frame_desc.channels)

\* the dwChannelMask a set of api channels is encoded to
EncodeChannelMaskNoCenter(channels) ==
    (IF "FRONT_LEFT" \in channels THEN SPEAKER_FRONT_LEFT ELSE 0)
    + (IF "FRONT_RIGHT" \in channels THEN SPEAKER_FRONT_RIGHT ELSE 0)

EncodeChannelMask(channels) ==
    (IF "FRONT_LEFT" \in channels THEN SPEAKER_FRONT_LEFT ELSE 0)
    + (IF "FRONT_RIGHT" \in channels THEN SPEAKER_FRONT_RIGHT ELSE 0)
    + (IF "FRONT_CENTER" \in channels THEN SPEAKER_FRONT_CENTER ELSE 0)

\* map_frame_desc: None for U32, otherwise the WAVEFORMATEXTENSIBLE
map_frame_desc_sample_aligned(frame_desc) ==
    IF frame_desc.format = "U32"
    THEN None
    ELSE LET bytes_per_sample == 4
             bits_per_sample == 8 * bytes_per_sample
             n == num_channels(frame_desc)
         IN Some([ wFormatTag      |-> WAVE_FORMAT_EXTENSIBLE,
              nChannels       |-> n % U16,
              nSamplesPerSec  |-> frame_desc.sample_rate,
              nAvgBytesPerSec |-> n * frame_desc.sample_rate * bytes_per_sample,
              nBlockAlign     |-> bytes_per_sample % U16,
              wBitsPerSample  |-> bits_per_sample % U16,
              cbSize          |-> 22,
              Samples         |-> bits_per_sample % U16,
              dwChannelMask   |-> EncodeChannelMask(frame_desc.channels),
              SubFormat       |-> KSDATAFORMAT_SUBTYPE_IEEE_FLOAT ])
map_frame_desc(frame_desc) ==
    IF frame_desc.format = "U32"
    THEN None
    ELSE LET bytes_per_sample == 4
             bits_per_sample == 8 * bytes_per_sample
             n == num_channels(frame_desc)
         IN Some([ wFormatTag      |-> WAVE_FORMAT_EXTENSIBLE,
              nChannels       |-> n % U16,
              nSamplesPerSec  |-> frame_desc.sample_rate,
              nAvgBytesPerSec |-> n * frame_desc.sample_rate * bytes_per_sample,
              nBlockAlign     |-> (n * bytes_per_sample) % U16,
              wBitsPerSample  |-> bits_per_sample % U16,
              cbSize          |-> 22,
              Samples         |-> bits_per_sample % U16,
              dwChannelMask   |-> EncodeChannelMask(frame_desc.channels),
              SubFormat       |-> KSDATAFORMAT_SUBTYPE_IEEE_FLOAT ])

\* the api channels a dwChannelMask is decoded to
DecodeChannelMask(mask) ==
    (IF HasBit(mask, SPEAKER_FRONT_LEFT) THEN {"FRONT_LEFT"} ELSE {})
    \cup (IF HasBit(mask, SPEAKER_FRONT_RIGHT) THEN {"FRONT_RIGHT"} ELSE {})
    \cup (IF HasBit(mask, SPEAKER_FRONT_CENTER) THEN {"FRONT_CENTER"} ELSE {})

ErrValidation == [ok |-> FALSE, err |-> "Validation"]
Ok(v) == [ok |-> TRUE, value |-> v]

\* map_waveformat: Ok(FrameDesc) for an extensible IEEE float descriptor with 32
\* valid bits, Err(Validation) for everything else
map_waveformat_any_samples(wave_format) ==
    IF wave_format.wFormatTag = WAVE_FORMAT_EXTENSIBLE
    THEN IF wave_format.SubFormat = KSDATAFORMAT_SUBTYPE_IEEE_FLOAT
         THEN Ok([ format      |-> "F32",
                   channels    |-> DecodeChannelMask(wave_format.dwChannelMask),
                   sample_rate |-> wave_format.nSamplesPerSec ])
         ELSE ErrValidation
    ELSE ErrValidation
map_waveformat(wave_format) ==
    IF wave_format.wFormatTag = WAVE_FORMAT_EXTENSIBLE
    THEN IF wave_format.SubFormat = KSDATAFORMAT_SUBTYPE_IEEE_FLOAT /\ wave_format.Samples = 32
         THEN Ok([ format      |-> "F32",
                   channels    |-> DecodeChannelMask(wave_format.dwChannelMask),
                   sample_rate |-> wave_format.nSamplesPerSec ])
         ELSE ErrValidation
    ELSE ErrValidation

\* the native descriptors a backend hands to the decoder: any format tag, any
\* sub-format, any count of valid bits, any of the three speaker positions
FormatTags == {WAVE_FORMAT_EXTENSIBLE, WAVE_FORMAT_PCM}
SubFormats == {KSDATAFORMAT_SUBTYPE_IEEE_FLOAT, KSDATAFORMAT_SUBTYPE_PCM}
ValidBits == {16, 24, 32}
NativeDescs ==
    { [ wFormatTag      |-> tag,
        nChannels       |-> Cardinality(DecodeChannelMask(mask)),
        nSamplesPerSec  |-> rate,
        nAvgBytesPerSec |-> Cardinality(DecodeChannelMask(mask)) * 4 * rate,
        nBlockAlign     |-> Cardinality(DecodeChannelMask(mask)) * 4,
        wBitsPerSample  |-> 32,
        cbSize          |-> IF tag = WAVE_FORMAT_EXTENSIBLE THEN 22 ELSE 0,
        Samples         |-> bits,
        dwChannelMask   |-> mask,
        SubFormat       |-> sub ] :
      tag \in FormatTags, sub \in SubFormats, bits \in ValidBits,
      mask \in 0..(SPEAKER_FRONT_LEFT + SPEAKER_FRONT_RIGHT + SPEAKER_FRONT_CENTER),
      rate \in SampleRates }

\* --- the conversions as steps over a drawn FrameDesc -----------------------
FmtInit ==
    /\ fmt_pc = "input"
    /\ fmt_in \in FrameDescs
    /\ fmt_native = None
    /\ fmt_out = None

FmtIdle ==
    /\ fmt_pc = "idle"
    /\ fmt_in = None
    /\ fmt_native = None
    /\ fmt_out = None

Encode ==
    /\ fmt_pc = "input"
    /\ fmt_native' = map_frame_desc(fmt_in)
    /\ fmt_pc' = "encoded"
    /\ UNCHANGED <<session_vars, fmt_in, fmt_out, os_vars, inst_vars, dev_vars, ret>>

Decode ==
    /\ fmt_pc = "encoded"
    /\ fmt_native # None
    /\ fmt_out' = map_waveformat(fmt_native.value)
    /\ fmt_pc' = "decoded"
    /\ UNCHANGED <<session_vars, fmt_in, fmt_native, os_vars, inst_vars, dev_vars, ret>>

(***************************************************************************)
(* The OS audio engine: endpoints and notifications                        *)
(***************************************************************************)

\* bounds of the model
NumIds == 2
MaxRaised == 1
MaxSent == 2

Ids == 1..NumIds
NullId == 0

\* winapi DEVICE_STATE_* bits
DEVICE_STATE_ACTIVE == 1
DEVICE_STATE_DISABLED == 2
DEVICE_STATE_NOTPRESENT == 4
DEVICE_STATE_UNPLUGGED == 8
DeviceStates == {DEVICE_STATE_ACTIVE, DEVICE_STATE_DISABLED, DEVICE_STATE_NOTPRESENT,
                 DEVICE_STATE_UNPLUGGED}

Flows == {"eCapture", "eRender"}
Roles == {"eConsole", "eMultimedia"}

\* an id the OS has no endpoint for
Absent == [state |-> 0, flows |-> {}]
Endpoints == [state : DeviceStates, flows : (SUBSET Flows) \ {{}}]

Range(seq) == {seq[i] : i \in 1..Len(seq)}

\* the ids of a set as a sequence in ascending order
RECURSIVE SetToSeq(_)
SetToSeq(S) ==
    IF S = {} THEN <<>>
    ELSE LET m == CHOOSE x \in S : \A y \in S : x <= y
         IN <<m>> \o SetToSeq(S \ {m})

\* IMMDeviceEnumerator::EnumAudioEndpoints(ty, state mask): the collection of the
\* endpoints of that data flow whose state is one of the mask's
EnumAudioEndpoints(os, ty, mask) ==
    SetToSeq({id \in Ids : ty \in os[id].flows
                           /\ \E st \in DeviceStates : HasBit(mask, st) /\ os[id].state = st})

\* IMMDeviceEnumerator::GetDefaultAudioEndpoint(ty, eConsole): the endpoints the OS
\* may report as the default of a data flow: an active one, or null when there is none
DefaultAudioEndpoints(os, ty) ==
    LET usable == {id \in Ids : ty \in os[id].flows /\ os[id].state = DEVICE_STATE_ACTIVE}
    IN IF usable = {} THEN {NullId} ELSE usable

\* Event values
EvAdded(id) == [type |-> "Added", device |-> id]
EvRemoved(id) == [type |-> "Removed", device |-> id]
EvChanged(id, state) == [type |-> "Changed", device |-> id, state |-> state]
EvDefault(id, flow) == [type |-> "Default", device |-> id, flow |-> flow]

(***************************************************************************)
(* NotificationClient: the hot-plug listener                               *)
(***************************************************************************)

\* Sender::send on the channel
Send(queue, event) == Append(queue, event)

\* the methods of NotificationClient: the channel after the call and the HRESULT
\* returned to the OS. Each sends at most one Event and touches nothing else.
on_device_state_changed(queue, id, state) ==
    [queue |-> Send(queue, EvChanged(id, state)), hr |-> S_OK]
on_device_added_twice(queue, id) ==
    [queue |-> Send(Send(queue, EvAdded(id)), EvAdded(id)), hr |-> S_OK]
on_device_added(queue, id) ==
    [queue |-> Send(queue, EvAdded(id)), hr |-> S_OK]
on_device_removed(queue, id) ==
    [queue |-> Send(queue, EvRemoved(id)), hr |-> S_OK]
on_default_device_changed(queue, flow, role, id) ==
    [queue |-> IF role = "eConsole" THEN Send(queue, EvDefault(id, flow)) ELSE queue,
     hr    |-> S_OK]
on_property_value_changed(queue, id) ==
    [queue |-> queue, hr |-> S_OK]

\* the listener method a notification of the OS is delivered to
Listener(queue, n) ==
    CASE n.type = "Added" -> on_device_added(queue, n.device).queue
      [] n.type = "Removed" -> on_device_removed(queue, n.device).queue
      [] n.type = "Changed" -> on_device_state_changed(queue, n.device, n.state).queue
      [] n.type = "Default" ->
            on_default_device_changed(queue, n.flow, n.role, n.device).queue

\* the OS raises a notification: it calls the clients registered with the
\* enumerator (IMMDeviceEnumerator::RegisterEndpointNotificationCallback)
Raise(n) ==
    /\ os_raised' = Append(os_raised, n)
    /\ event_queue' = IF os_callbacks # {} THEN Listener(event_queue, n) ELSE event_queue

OsDeviceAdded ==
    /\ inst = "created"
    /\ Len(os_raised) < MaxRaised
    /\ \E id \in Ids, e \in Endpoints :
          /\ os_endpoints[id] = Absent
          /\ os_endpoints' = [os_endpoints EXCEPT ![id] = e]
          /\ Raise([type |-> "Added", device |-> id])
    /\ UNCHANGED <<session_vars, fmt_vars, dev_vars, inst, os_callbacks, physical_devices, polled, ret>>

OsDeviceRemoved ==
    /\ inst = "created"
    /\ Len(os_raised) < MaxRaised
    /\ \E id \in Ids :
          /\ os_endpoints[id] # Absent
          /\ os_endpoints' = [os_endpoints EXCEPT ![id] = Absent]
          /\ Raise([type |-> "Removed", device |-> id])
    /\ UNCHANGED <<session_vars, fmt_vars, dev_vars, inst, os_callbacks, physical_devices, polled, ret>>

OsDeviceStateChanged ==
    /\ inst = "created"
    /\ Len(os_raised) < MaxRaised
    /\ \E id \in Ids, st \in DeviceStates :
          /\ os_endpoints[id] # Absent
          /\ os_endpoints[id].state # st
          /\ os_endpoints' = [os_endpoints EXCEPT ![id].state = st]
          /\ Raise([type |-> "Changed", device |-> id, state |-> st])
    /\ UNCHANGED <<session_vars, fmt_vars, dev_vars, inst, os_callbacks, physical_devices, polled, ret>>

OsDefaultChanged ==
    /\ inst = "created"
    /\ Len(os_raised) < MaxRaised
    /\ \E flow \in Flows, role \in Roles :
          \E id \in DefaultAudioEndpoints(os_endpoints, flow) \ {NullId} :
              Raise([type |-> "Default", device |-> id, flow |-> flow, role |-> role])
    /\ UNCHANGED <<session_vars, fmt_vars, dev_vars, inst, os_endpoints, os_callbacks, physical_devices, polled, ret>>

(***************************************************************************)
(* Instance: the physical device registry                                  *)
(***************************************************************************)

StreamFlagOf(ty) == IF ty = "eCapture" THEN "INPUT" ELSE "OUTPUT"

AllStatesMask ==
    DEVICE_STATE_ACTIVE + DEVICE_STATE_DISABLED + DEVICE_STATE_NOTPRESENT + DEVICE_STATE_UNPLUGGED

\* one iteration of the loop of enumerate_physical_devices_by_flow: entry(id)
\* .and_modify(streams |= stream_flags).or_insert_with(activate if active)
RegisterEndpointReplacing(registry, os, id, stream_flags) ==
    (id :> [ state        |-> os[id].state,
             audio_client |-> IF HasBit(os[id].state, DEVICE_STATE_ACTIVE) THEN id ELSE NullId,
             streams      |-> {stream_flags} ])
    @@ registry

RegisterEndpointActivating(registry, os, id, stream_flags) ==
    IF id \in DOMAIN registry
    THEN [registry EXCEPT ![id].streams = @ \cup {stream_flags}]
    ELSE registry @@
         (id :> [state |-> os[id].state, audio_client |-> id, streams |-> {stream_flags}])

RegisterEndpoint(registry, os, id, stream_flags) ==
    IF id \in DOMAIN registry
    THEN [registry EXCEPT ![id].streams = @ \cup {stream_flags}]
    ELSE registry @@
         (id :> [ state        |-> os[id].state,
                  audio_client |-> IF HasBit(os[id].state, DEVICE_STATE_ACTIVE) THEN id ELSE NullId,
                  streams      |-> {stream_flags} ])

RECURSIVE RegisterAll(_, _, _, _)
RegisterAll(registry, os, collection, stream_flags) ==
    IF collection = <<>> THEN registry
    ELSE RegisterAll(RegisterEndpoint(registry, os, Head(collection), stream_flags),
                     os, Tail(collection), stream_flags)

enumerate_physical_devices_by_flow(registry, os, ty) ==
    RegisterAll(registry, os, EnumAudioEndpoints(os, ty, AllStatesMask), StreamFlagOf(ty))

EmptyRegistry == [id \in {} |-> Absent]

\* the IAudioClient IMMDevice::Activate returns: one reference, not initialized
NoClient ==
    [ activated |-> FALSE, releases |-> 0, initialized |-> FALSE, buffer_size |-> 0,
      padding |-> 0, event_handle |-> 0, started |-> FALSE ]
ActivatedClient == [NoClient EXCEPT !.activated = TRUE]

\* Instance::create: the channel, the notification client (which is created but
\* not registered with the enumerator) and the capture pass then the render pass
InstanceCreate ==
    /\ inst = "uninit"
    /\ inst' = "created"
    /\ LET capture == enumerate_physical_devices_by_flow(EmptyRegistry, os_endpoints, "eCapture")
           both == enumerate_physical_devices_by_flow(capture, os_endpoints, "eRender")
       IN /\ physical_devices' = both
          /\ clients' = [id \in Ids |->
                            IF id \in DOMAIN both /\ both[id].audio_client # NullId
                            THEN ActivatedClient ELSE NoClient]
          /\ ret' = [ op      |-> "create",
                      capture |-> EnumAudioEndpoints(os_endpoints, "eCapture", AllStatesMask),
                      render  |-> EnumAudioEndpoints(os_endpoints, "eRender", AllStatesMask) ]
    /\ event_queue' = <<>>
    /\ os_callbacks' = {}
    /\ UNCHANGED <<session_vars, fmt_vars, os_endpoints, os_raised, polled, fences, devices>>

\* HashMap::values: every entry of the registry, once
values(registry) == SetToSeq(DOMAIN registry)

\* Instance::enumerate_physical_devices: the entries recorded as active, collected
\* into a Vec
enumerate_physical_devices_unfiltered(registry) == values(registry)
enumerate_physical_devices(registry) ==
    SelectSeq(values(registry), LAMBDA id : HasBit(registry[id].state, DEVICE_STATE_ACTIVE))

EnumeratePhysicalDevices ==
    /\ inst = "created"
    /\ ret' = [op |-> "enumerate_physical_devices",
               devices |-> enumerate_physical_devices(physical_devices)]
    /\ UNCHANGED <<session_vars, fmt_vars, os_vars, dev_vars, inst_vars>>

\* Instance::default_physical_input_device / default_physical_output_device for the
\* endpoint the OS reported: None for null, the registry entry of its id, and a
\* panic of the HashMap index when the registry has no entry of that id
default_physical_device(registry, device) ==
    IF device = NullId THEN [result |-> "None", device |-> NullId]
    ELSE IF device \in DOMAIN registry THEN [result |-> "Some", device |-> device]
    ELSE [result |-> "panic", device |-> NullId]

\* a panic or a crash ends the process: no call follows it
AfterCall(result) == IF result \in {"panic", "crash"} THEN "aborted" ELSE "created"

DefaultPhysicalInputDevice ==
    /\ inst = "created"
    /\ \E device \in DefaultAudioEndpoints(os_endpoints, "eCapture") :
          LET r == default_physical_device(physical_devices, device)
          IN /\ ret' = [op |-> "default_physical_input_device", os_default |-> device] @@ r
             /\ inst' = AfterCall(r.result)
    /\ UNCHANGED <<session_vars, fmt_vars, os_vars, dev_vars, physical_devices, event_queue, polled>>

DefaultPhysicalOutputDevice ==
    /\ inst = "created"
    /\ \E device \in DefaultAudioEndpoints(os_endpoints, "eRender") :
          LET r == default_physical_device(physical_devices, device)
          IN /\ ret' = [op |-> "default_physical_output_device", os_default |-> device] @@ r
             /\ inst' = AfterCall(r.result)
    /\ UNCHANGED <<session_vars, fmt_vars, os_vars, dev_vars, physical_devices, event_queue, polled>>

\* Instance::poll_events: try_recv until the channel is empty; each event is
\* printed (dbg!) and dropped, the handler passed in is not called
poll_events_failing_when_empty(queue) ==
    [result |-> IF queue = <<>> THEN "Err_Unavailable" ELSE "Ok",
     received |-> queue, handler_calls |-> <<>>, remaining |-> <<>>]
poll_events_newest_first(queue) ==
    [result |-> "Ok", received |-> [i \in 1..Len(queue) |-> queue[Len(queue) + 1 - i]],
     handler_calls |-> <<>>, remaining |-> <<>>]
poll_events(queue) ==
    [result |-> "Ok", received |-> queue, handler_calls |-> <<>>, remaining |-> <<>>]

PollEvents ==
    /\ inst = "created"
    /\ LET r == poll_events(event_queue)
       IN /\ event_queue' = r.remaining
          /\ polled' = polled \o r.received
          /\ ret' = [op |-> "poll_events", queued |-> event_queue] @@ r
    /\ UNCHANGED <<session_vars, fmt_vars, os_vars, dev_vars, inst, physical_devices>>

\* the methods of NotificationClient, called on a thread of the backend
OnDeviceStateChanged ==
    /\ inst = "created"
    /\ Len(polled) + Len(event_queue) < MaxSent
    /\ \E id \in Ids, state \in DeviceStates :
          event_queue' = on_device_state_changed(event_queue, id, state).queue
    /\ UNCHANGED <<session_vars, fmt_vars, os_vars, dev_vars, inst, physical_devices, polled, ret>>

OnDeviceAdded ==
    /\ inst = "created"
    /\ Len(polled) + Len(event_queue) < MaxSent
    /\ \E id \in Ids : event_queue' = on_device_added(event_queue, id).queue
    /\ UNCHANGED <<session_vars, fmt_vars, os_vars, dev_vars, inst, physical_devices, polled, ret>>

OnDeviceRemoved ==
    /\ inst = "created"
    /\ Len(polled) + Len(event_queue) < MaxSent
    /\ \E id \in Ids : event_queue' = on_device_removed(event_queue, id).queue
    /\ UNCHANGED <<session_vars, fmt_vars, os_vars, dev_vars, inst, physical_devices, polled, ret>>

OnDefaultDeviceChanged ==
    /\ inst = "created"
    /\ Len(polled) + Len(event_queue) < MaxSent
    /\ \E flow \in Flows, role \in Roles, id \in Ids :
          event_queue' = on_default_device_changed(event_queue, flow, role, id).queue
    /\ UNCHANGED <<session_vars, fmt_vars, os_vars, dev_vars, inst, physical_devices, polled, ret>>

OnPropertyValueChanged ==
    /\ inst = "created"
    /\ \E id \in Ids : event_queue' = on_property_value_changed(event_queue, id).queue
    /\ UNCHANGED <<session_vars, fmt_vars, os_vars, dev_vars, inst, physical_devices, polled, ret>>

(***************************************************************************)
(* Fence, create_device and the Device                                     *)
(***************************************************************************)

\* bounds of the model
MaxFences == 2
MaxCapacity == 2

\* timeout_ms of u32::MAX (!0): WaitForSingleObject waits until the event is signaled
INFINITE == 2147483647
Timeouts == {0, 100, INFINITE}

SharingModes == {"Exclusive", "Concurrent"}
DeviceMasks == {{}, {"FRONT_LEFT", "FRONT_RIGHT"}}
DeviceRates == {48000}

\* the formats IAudioClient::GetMixFormat may report for an endpoint
MixFormats ==
    { map_frame_desc([format |-> "F32", channels |-> {"FRONT_LEFT", "FRONT_RIGHT"},
                      sample_rate |-> 48000]).value,
      map_frame_desc([format |-> "F32", channels |-> ChannelNames,
                      sample_rate |-> 44100]).value,
      [ wFormatTag |-> WAVE_FORMAT_PCM, nChannels |-> 2, nSamplesPerSec |-> 44100,
        nAvgBytesPerSec |-> 176400, nBlockAlign |-> 4, wBitsPerSample |-> 16, cbSize |-> 0,
        Samples |-> 0, dwChannelMask |-> 0, SubFormat |-> KSDATAFORMAT_SUBTYPE_PCM ] }

\* Fence::create(false, false): an auto-reset event, not signaled
NewFence == [signaled |-> FALSE, closed |-> 0]

\* Fence::wait: WaitForSingleObject on the auto-reset event. A signaled event
\* satisfies the wait and is reset; otherwise a finite timeout elapses.
FenceWaitKeepingSignal(fence, timeout_ms) ==
    [outcome |-> IF fence.signaled THEN "signaled" ELSE "timeout", fence |-> fence]
FenceWait(fence, timeout_ms) ==
    IF fence.signaled
    THEN [outcome |-> "signaled", fence |-> [fence EXCEPT !.signaled = FALSE]]
    ELSE [outcome |-> "timeout", fence |-> fence]

\* a wait that can return: the event is signaled or the timeout is finite
WaitReturnsWhenSignaled(fence, timeout_ms) == fence.signaled
WaitReturns(fence, timeout_ms) == fence.signaled \/ timeout_ms # INFINITE

\* the duplex check of create_device
IsDuplexMissingNot(channels) == channels.input = {} /\ channels.output # {}
IsDuplexOrSilent(channels) ==
    (channels.input # {} /\ channels.output # {}) \/ (channels.input = {} /\ channels.output = {})
IsDuplex(channels) == channels.input # {} /\ channels.output # {}

\* the ways a call through a COM pointer can go: a pointer whose object was
\* released is dangling, and the call either faults or finds the object's memory
\* as it was left
PointerUses(client) == IF client.releases > 0 THEN {"crash", "stale"} ELSE {"ok"}

\* the live Devices
Live == {d \in 1..Len(devices) : devices[d].live}

\* create_device up to the point it returns or panics. `accept`, `size` and `mix`
\* are the backend's answers to Initialize, GetBufferSize and GetMixFormat; `use`
\* is how the calls through the registry's audio client pointer go.
create_device(desc, channels, accept, size, mix, use) ==
    LET id == desc.physical_device
        args == [desc |-> desc, channels |-> channels]
        fence == Len(fences) + 1
        with_fence == Append(fences, NewFence)
        frame_desc == [ format      |-> desc.format,
                        channels    |-> IF channels.input # {} THEN channels.input
                                        ELSE channels.output,
                        sample_rate |-> desc.sample_rate ]
        mix_format == map_frame_desc(frame_desc)
        client == clients[id]
        \* Initialize: refused when the client is initialized already or the
        \* backend rejects the format; SetEventHandle needs an initialized client
        initialized == IF ~client.initialized /\ accept
                       THEN [client EXCEPT !.initialized = TRUE, !.buffer_size = size]
                       ELSE client
        wired == IF initialized.initialized
                 THEN [initialized EXCEPT !.event_handle = fence]
                 ELSE initialized
        \* GetService(IAudioRenderClient): null unless the client is initialized
        \* and the endpoint renders
        render_client == wired.initialized /\ "eRender" \in os_endpoints[id].flows
        buffer_size == IF wired.initialized THEN wired.buffer_size ELSE 0
        decoded == map_waveformat(mix)
        \* the status Initialize returned, which the code prints and drops
        hr_ok == ~client.initialized /\ accept
        \* frame_desc: the FrameDesc built for the encoder, once the duplex check is passed
        unchanged == [clients |-> clients, fences |-> fences, devices |-> devices,
                      initialize |-> <<>>, frame_desc |-> <<>>]
    IN IF IsDuplex(channels)
       THEN unchanged @@ [result |-> "Err_Validation", args |-> args, device |-> 0]
       ELSE IF mix_format = None
       THEN \* None.unwrap()
            [unchanged EXCEPT !.fences = with_fence, !.frame_desc = <<frame_desc>>]
                @@ [result |-> "panic", args |-> args, device |-> 0]
       ELSE IF physical_devices[id].audio_client = NullId \/ use = "crash"
       THEN \* a call through a null or dangling audio client pointer faults
            [unchanged EXCEPT !.fences = with_fence, !.frame_desc = <<frame_desc>>]
                @@ [result |-> "crash", args |-> args, device |-> 0]
       ELSE IF channels.input # {} \/ ~decoded.ok
       THEN \* unimplemented!() of the input path, or Err.unwrap() of the mix format
            [unchanged EXCEPT !.fences = with_fence, !.clients = [clients EXCEPT ![id] = wired],
                              !.initialize = <<hr_ok>>, !.frame_desc = <<frame_desc>>]
                @@ [result |-> "panic", args |-> args, device |-> 0]
       ELSE [ clients |-> [clients EXCEPT ![id] = wired],
              fences  |-> with_fence,
              devices |-> Append(devices,
                            [ client        |-> id,
                              fence         |-> fence,
                              device_stream |-> [ tag         |-> "Output",
                                                  client      |-> render_client,
                                                  buffer_size |-> buffer_size ],
                              stream        |-> [ channels    |-> decoded.value.channels,
                                                  sample_rate |-> decoded.value.sample_rate,
                                                  buffer_size |-> buffer_size ],
                              live          |-> TRUE ]),
              initialize |-> <<hr_ok>>,
              frame_desc |-> <<frame_desc>>,
              result  |-> "Ok",
              args    |-> args,
              device  |-> Len(devices) + 1 ]

\* the answers of the backend a create_device call gets to see: Initialize is
\* reached with a format and a non-null audio client, and only a client that is
\* not initialized yet can accept; GetMixFormat is reached on the output path
BackendReached(id, format, input, output) ==
    /\ ~(input # {} /\ output # {})
    /\ format # "U32"
    /\ physical_devices[id].audio_client # NullId

InitializeAnswers(id, format, input, output) ==
    IF BackendReached(id, format, input, output) /\ ~clients[id].initialized
    THEN BOOLEAN ELSE {FALSE}

MixFormatAnswers(id, format, input, output) ==
    IF BackendReached(id, format, input, output) /\ input = {}
    THEN MixFormats
    ELSE {CHOOSE mix \in MixFormats : map_waveformat(mix).ok}

CreateDevice ==
    /\ inst = "created"
    /\ Len(fences) < MaxFences
    /\ \E id \in DOMAIN physical_devices, sharing \in SharingModes, format \in Formats,
          sample_rate \in DeviceRates, input \in DeviceMasks, output \in DeviceMasks :
          \E accept \in InitializeAnswers(id, format, input, output),
             size \in {MaxCapacity},
             mix \in MixFormatAnswers(id, format, input, output),
             use \in PointerUses(clients[id]) :
             LET desc == [physical_device |-> id, sharing |-> sharing, format |-> format,
                          sample_rate |-> sample_rate]
                 r == create_device(desc, [input |-> input, output |-> output],
                                    accept, size, mix, use)
             IN /\ clients' = r.clients
                /\ fences' = r.fences
                /\ devices' = r.devices
                /\ ret' = [op |-> "create_device", result |-> r.result, args |-> r.args,
                           device |-> r.device, initialize |-> r.initialize,
                           frame_desc |-> r.frame_desc]
                /\ inst' = AfterCall(r.result)
    /\ UNCHANGED <<session_vars, fmt_vars, os_vars, physical_devices, event_queue, polled>>

\* Drop for Instance: Release on the enumerator and on the notification
\* listener; the audio clients of the registry are left as they are (TODO in the
\* source). A Device does not borrow the Instance and may outlive it.
drop_instance == [released |-> <<"enumerator", "notifier">>]

DropInstance ==
    /\ inst = "created"
    /\ inst' = "dropped"
    /\ ret' = [op |-> "drop_instance"] @@ drop_instance
    /\ UNCHANGED <<session_vars, fmt_vars, os_vars, dev_vars, physical_devices, event_queue,
                   polled>>

\* Drop for Device: client.Release() and fence.destory() (CloseHandle)
DropDevice ==
    /\ inst \in {"created", "dropped"}
    /\ \E d \in Live : \E use \in PointerUses(clients[devices[d].client]) :
          LET dev == devices[d]
          IN /\ clients' = [clients EXCEPT ![dev.client].releases = @ + 1,
                                           ![dev.client].started = FALSE]
             /\ fences' = IF use = "crash" THEN fences
                          ELSE [fences EXCEPT ![dev.fence].closed = @ + 1]
             /\ devices' = [devices EXCEPT ![d].live = FALSE]
             /\ ret' = [op |-> "drop_device", device |-> d,
                        result |-> IF use = "crash" THEN "crash" ELSE "Ok"]
             /\ inst' = IF use = "crash" THEN "aborted" ELSE inst
    /\ UNCHANGED <<session_vars, fmt_vars, os_vars, physical_devices, event_queue, polled>>

\* Device::start: IAudioClient::Start, its status is not looked at
Start ==
    /\ inst = "created"
    /\ \E d \in Live : \E use \in PointerUses(clients[devices[d].client]) :
          LET c == devices[d].client
          IN /\ clients' = IF use # "crash" /\ clients[c].initialized
                           THEN [clients EXCEPT ![c].started = TRUE] ELSE clients
             /\ ret' = [op |-> "start", device |-> d,
                        result |-> IF use = "crash" THEN "crash" ELSE "Ok"]
             /\ inst' = AfterCall(ret'.result)
    /\ UNCHANGED <<session_vars, fmt_vars, os_vars, physical_devices, event_queue, polled, fences, devices>>

\* Device::stop: IAudioClient::Stop, its status is not looked at
Stop ==
    /\ inst = "created"
    /\ \E d \in Live : \E use \in PointerUses(clients[devices[d].client]) :
          LET c == devices[d].client
          IN /\ clients' = IF use # "crash" THEN [clients EXCEPT ![c].started = FALSE]
                           ELSE clients
             /\ ret' = [op |-> "stop", device |-> d,
                        result |-> IF use = "crash" THEN "crash" ELSE "Ok"]
             /\ inst' = AfterCall(ret'.result)
    /\ UNCHANGED <<session_vars, fmt_vars, os_vars, physical_devices, event_queue, polled, fences, devices>>

\* the frame count of the output branch of acquire_buffers
OutputFramesAddingPadding(buffer_size, padding) == buffer_size + padding
OutputFramesIgnoringPadding(buffer_size, padding) == buffer_size
OutputFrames(buffer_size, padding) == buffer_size - padding

\* Device::acquire_buffers after the wait. `packet` is the packet and `flags` the
\* status flags the capture client's GetBuffer reports; non-zero flags are printed
\* (dbg!) and nothing else. Ok with the frames acquired, or the fault of the call.
acquire_buffers(dev, client, packet, flags, use) ==
    LET fault(result) == [result |-> result, frames |-> 0, requested |-> <<>>,
                          diagnostics |-> <<>>]
    IN IF dev.device_stream.tag = "Input"
       THEN IF ~dev.device_stream.client THEN fault("crash")
            ELSE [result |-> "Ok", frames |-> packet, requested |-> <<>>,
                  diagnostics |-> IF flags # 0 THEN <<flags>> ELSE <<>>]
       ELSE LET padding == IF client.initialized THEN client.padding ELSE 0
                len == OutputFrames(dev.device_stream.buffer_size, padding)
            IN IF use = "crash" THEN fault("crash")
               ELSE IF padding > dev.device_stream.buffer_size
               THEN \* u32 underflow: a panic, or a wrapped length handed to the
                    \* null render client of a Device made before the client was initialized
                    fault("panic")
               ELSE IF ~dev.device_stream.client THEN fault("crash")
               ELSE \* GetBuffer(len), StreamBuffers { frames: len }
                    [result |-> "Ok", frames |-> len, requested |-> <<len>>,
                     diagnostics |-> <<>>]

\* the packets IAudioCaptureClient::GetBuffer may hand out
PacketSizes(dev, client) ==
    IF dev.device_stream.tag = "Input" THEN 0..client.buffer_size ELSE {0}

\* the status flags IAudioCaptureClient::GetBuffer may report (0: none, 1: data
\* discontinuity); the render client's GetBuffer reports none
BufferFlags(dev) ==
    IF dev.device_stream.tag = "Input" THEN {0, 1} ELSE {0}

\* Device::release_buffers: ReleaseBuffer(num_frames) on the capture or render client
release_buffers(dev, client, num_frames) ==
    IF dev.device_stream.tag = "Input"
    THEN client
    ELSE [client EXCEPT !.padding = @ + num_frames]

\* the callback is handed a shared reference to the Stream and the StreamBuffers
\* by value: whatever it writes, the Stream it leaves behind is the one it was given
CallbackStreamResized(stream, frames, written) == [stream EXCEPT !.buffer_size = frames]
CallbackStream(stream, frames, written) == stream

\* the count submit_buffers passes to release_buffers: buffers.frames
ReleasedFramesWritten(frames, written) == written
ReleasedFrames(frames, written) == frames

\* the calls one submit_buffers makes once the padding is read, in order: the
\* render client's GetBuffer, the user callback, the render client's ReleaseBuffer
BufferCallsReleasingFirst == <<"GetBuffer", "ReleaseBuffer", "callback">>
BufferCalls == <<"GetBuffer", "callback", "ReleaseBuffer">>

\* the number of frames a callback may fill of the frames it is handed
Written(dev, client) ==
    IF dev.device_stream.tag = "Output" /\ dev.device_stream.client /\ client.initialized
       /\ client.padding < dev.device_stream.buffer_size
    THEN {0, dev.device_stream.buffer_size - client.padding}
    ELSE {0}

\* Device::submit_buffers: the wait (whose outcome is dropped), the acquire, the
\* callback, the release. `written` is the number of frames the callback fills.
submit_buffers(dev, timeout_ms, packet, flags, use, written) ==
    LET waited == FenceWait(fences[dev.fence], timeout_ms)
        client == clients[dev.client]
        buffers == acquire_buffers(dev, client, packet, flags, use)
        num_frames == ReleasedFrames(buffers.frames, written)
    IN IF buffers.result = "Ok"
       THEN [ result         |-> "Ok",
              wait           |-> waited.outcome,
              fence          |-> waited.fence,
              frames         |-> buffers.frames,
              requested      |-> buffers.requested,
              diagnostics    |-> buffers.diagnostics,
              callback_calls |-> <<buffers.frames>>,
              released       |-> <<num_frames>>,
              calls          |-> BufferCalls,
              stream         |-> CallbackStream(dev.stream, buffers.frames, written),
              client         |-> release_buffers(dev, client, num_frames) ]
       ELSE [ result         |-> buffers.result,
              wait           |-> waited.outcome,
              fence          |-> waited.fence,
              frames         |-> 0,
              requested      |-> buffers.requested,
              diagnostics    |-> buffers.diagnostics,
              callback_calls |-> <<>>,
              released       |-> <<>>,
              calls          |-> <<>>,
              stream         |-> dev.stream,
              client         |-> client ]

SubmitBuffers ==
    /\ inst = "created"
    /\ \E d \in Live, timeout_ms \in Timeouts :
          /\ WaitReturns(fences[devices[d].fence], timeout_ms)
          /\ \E use \in PointerUses(clients[devices[d].client]),
                packet \in PacketSizes(devices[d], clients[devices[d].client]),
                flags \in BufferFlags(devices[d]),
                written \in Written(devices[d], clients[devices[d].client]) :
                LET dev == devices[d]
                    r == submit_buffers(dev, timeout_ms, packet, flags, use, written)
                IN /\ fences' = [fences EXCEPT ![dev.fence] = r.fence]
                   /\ clients' = [clients EXCEPT ![dev.client] = r.client]
                   /\ devices' = [devices EXCEPT ![d].stream = r.stream]
                   /\ ret' = [ op |-> "submit_buffers", device |-> d, timeout_ms |-> timeout_ms,
                               result |-> r.result, wait |-> r.wait, frames |-> r.frames,
                               callback_calls |-> r.callback_calls, released |-> r.released,
                               capacity |-> dev.stream.buffer_size,
                               padding |-> clients[dev.client].padding,
                               requested |-> r.requested, written |-> written,
                               calls |-> r.calls, flags |-> flags,
                               diagnostics |-> r.diagnostics ]
                   /\ inst' = AfterCall(r.result)
    /\ UNCHANGED <<session_vars, fmt_vars, os_vars, physical_devices, event_queue, polled>>

\* the audio engine at work on a started stream: the hardware consumes queued
\* frames and the event handle of the client is signaled
BackendPeriod ==
    /\ inst = "created"
    /\ \E c \in Ids, consumed \in 0..MaxCapacity :
          /\ clients[c].started /\ clients[c].releases = 0
          /\ consumed <= clients[c].padding
          /\ clients' = [clients EXCEPT ![c].padding = @ - consumed]
          /\ fences' = IF clients[c].event_handle # 0
                       THEN [fences EXCEPT ![clients[c].event_handle].signaled = TRUE]
                       ELSE fences
    /\ UNCHANGED <<session_vars, fmt_vars, os_vars, inst_vars, devices, ret>>

\* the HRESULTs of IAudioClient::IsFormatSupported
IsFormatSupportedAnswers == {S_OK, S_FALSE, AUDCLNT_E_UNSUPPORTED_FORMAT}

map_sharing_mode(sharing) ==
    IF sharing = "Exclusive" THEN "AUDCLNT_SHAREMODE_EXCLUSIVE" ELSE "AUDCLNT_SHAREMODE_SHARED"

\* the test of the status IsFormatSupported returned
IsSupportedSucceeded(hr) == hr >= 0
IsSupported(hr) == hr = S_OK

\* Instance::physical_device_supports_format. `hr` is the backend's answer to the
\* question it is asked, `use` how the call through the audio client pointer goes.
physical_device_supports_format(id, sharing, frame_desc, hr, use) ==
    LET wave_format == map_frame_desc(frame_desc)
    IN IF wave_format = None
       THEN \* None.unwrap()
            [result |-> "panic", asked |-> <<>>]
       ELSE IF physical_devices[id].audio_client = NullId \/ use = "crash"
       THEN [result |-> "crash", asked |-> <<>>]
       ELSE [ result |-> IF IsSupported(hr) THEN "true" ELSE "false",
              asked  |-> << [ sharing     |-> map_sharing_mode(sharing),
                              wave_format |-> wave_format.value,
                              hr          |-> hr ] >> ]

PhysicalDeviceSupportsFormat ==
    /\ inst = "created"
    /\ \E id \in DOMAIN physical_devices, sharing \in SharingModes, frame_desc \in FrameDescs :
          \E hr \in IsFormatSupportedAnswers, use \in PointerUses(clients[id]) :
             LET r == physical_device_supports_format(id, sharing, frame_desc, hr, use)
             IN /\ ret' = [ op |-> "physical_device_supports_format", result |-> r.result,
                            args |-> [physical_device |-> id, sharing |-> sharing,
                                      frame_desc |-> frame_desc],
                            asked |-> r.asked ]
                /\ inst' = AfterCall(r.result)
    /\ UNCHANGED <<session_vars, fmt_vars, os_vars, physical_devices, event_queue, polled, dev_vars>>

(***************************************************************************)
(* The Fence on its own: a thread waits on it, the backend signals it      *)
(***************************************************************************)

\* Fence::create(false, false), as create_device calls it
FenceCreate ==
    /\ Len(fences) < MaxFences
    /\ fences' = Append(fences, NewFence)
    /\ UNCHANGED <<session_vars, fmt_vars, os_vars, inst_vars, clients, devices, ret>>

\* the thread is inside Fence::wait
Waiting == ret.op = "wait" /\ ret.pc = "waiting"

\* Fence::wait is entered: WaitForSingleObject(handle, timeout_ms)
WaitCall ==
    /\ ~Waiting
    /\ \E f \in 1..Len(fences), timeout_ms \in Timeouts :
          /\ fences[f].closed = 0
          /\ ret' = [op |-> "wait", fence |-> f, timeout_ms |-> timeout_ms,
                     pc |-> "waiting", outcome |-> "none"]
    /\ UNCHANGED <<session_vars, fmt_vars, os_vars, inst_vars, dev_vars>>

\* WaitForSingleObject returns: the event was signaled, or the timeout elapsed
WaitReturn ==
    /\ Waiting
    /\ WaitReturns(fences[ret.fence], ret.timeout_ms)
    /\ LET waited == FenceWait(fences[ret.fence], ret.timeout_ms)
       IN /\ fences' = [fences EXCEPT ![ret.fence] = waited.fence]
          /\ ret' = [ret EXCEPT !.pc = "returned", !.outcome = waited.outcome]
    /\ UNCHANGED <<session_vars, fmt_vars, os_vars, inst_vars, clients, devices>>

\* the backend sets the event it was given with SetEventHandle
FenceSignal ==
    /\ \E f \in 1..Len(fences) :
          /\ fences[f].closed = 0
          /\ ~fences[f].signaled
          /\ fences' = [fences EXCEPT ![f].signaled = TRUE]
    /\ UNCHANGED <<session_vars, fmt_vars, os_vars, inst_vars, clients, devices, ret>>

\* Fence::destory: CloseHandle, once no thread waits on the event
FenceDestroy ==
    /\ \E f \in 1..Len(fences) :
          /\ fences[f].closed = 0
          /\ ~(Waiting /\ ret.fence = f)
          /\ fences' = [fences EXCEPT ![f].closed = 1]
    /\ UNCHANGED <<session_vars, fmt_vars, os_vars, inst_vars, clients, devices, ret>>

(***************************************************************************)
(* Session                                                                 *)
(***************************************************************************)

\* bound of the model
MaxSessions == 2

\* a thread no Session has promoted: no real-time handle is in force, and no
\* handle has been handed back to the OS
NoPromotion == [promoted |-> {}, demotes |-> [h \in 1..MaxSessions |-> 0]]

\* Instance::create_session: promote_current_thread_to_real_time(0, sample_rate)
\* and the Session that holds the handle. `promoted` is whether the OS grants
\* the promotion; a refusal is an Err the code unwraps.
create_session(sample_rate, promoted) ==
    LET handle == Len(sessions) + 1
    IN IF ~promoted
       THEN [result |-> "panic", sessions |-> sessions, rt_thread |-> rt_thread]
       ELSE [ result    |-> "Ok",
              sessions  |-> Append(sessions, [ handle      |-> Some(handle),
                                               sample_rate |-> sample_rate,
                                               dropped     |-> FALSE ]),
              rt_thread |-> [rt_thread EXCEPT !.promoted = @ \cup {handle}] ]

CreateSession ==
    /\ inst = "created"
    /\ Len(sessions) < MaxSessions
    /\ \E sample_rate \in SampleRates, promoted \in BOOLEAN :
          LET r == create_session(sample_rate, promoted)
          IN /\ sessions' = r.sessions
             /\ rt_thread' = r.rt_thread
             /\ ret' = [op |-> "create_session", sample_rate |-> sample_rate,
                        result |-> r.result]
             /\ inst' = AfterCall(r.result)
    /\ UNCHANGED <<fmt_vars, os_vars, dev_vars, physical_devices, event_queue, polled>>

\* Drop for Session: the handle is taken out of the Option and handed to
\* demote_current_thread_from_real_time. `demoted` is whether the OS reverts the
\* promotion; a refusal is an Err the code unwraps.
drop_session_keeping_priority(session, rt, demoted) ==
    [ result    |-> "Ok",
      session   |-> [session EXCEPT !.handle = None, !.dropped = TRUE],
      rt_thread |-> rt ]
drop_session(session, rt, demoted) ==
    IF session.handle = None
    THEN [result |-> "Ok", session |-> [session EXCEPT !.dropped = TRUE], rt_thread |-> rt]
    ELSE LET handle == session.handle.value
         IN [ result    |-> IF demoted THEN "Ok" ELSE "panic",
              session   |-> [session EXCEPT !.handle = None, !.dropped = TRUE],
              rt_thread |-> [ promoted |-> IF demoted THEN rt.promoted \ {handle}
                                           ELSE rt.promoted,
                              demotes  |-> [rt.demotes EXCEPT ![handle] = @ + 1] ] ]

\* the scope of a Session ends: a value is dropped once
DropSession ==
    /\ inst = "created"
    /\ \E s \in 1..Len(sessions), demoted \in BOOLEAN :
          /\ ~sessions[s].dropped
          /\ LET r == drop_session(sessions[s], rt_thread, demoted)
             IN /\ sessions' = [sessions EXCEPT ![s] = r.session]
                /\ rt_thread' = r.rt_thread
                /\ ret' = [op |-> "drop_session", session |-> s, result |-> r.result]
                /\ inst' = AfterCall(r.result)
    /\ UNCHANGED <<fmt_vars, os_vars, dev_vars, physical_devices, event_queue, polled>>

NoCall == [op |-> "none"]

InstInit ==
    /\ inst = "uninit"
    /\ os_endpoints \in [Ids -> Endpoints \cup {Absent}]
    /\ os_callbacks = {}
    /\ os_raised = <<>>
    /\ physical_devices = EmptyRegistry
    /\ event_queue = <<>>
    /\ polled = <<>>
    /\ clients = [id \in Ids |-> NoClient]
    /\ fences = <<>>
    /\ devices = <<>>
    /\ sessions = <<>>
    /\ rt_thread = NoPromotion
    /\ ret = NoCall

\* the registry as Instance::create builds it, over every set of endpoints
Init == FmtIdle /\ InstInit

Next ==
    \/ InstanceCreate
    \/ EnumeratePhysicalDevices
    \/ DefaultPhysicalInputDevice
    \/ DefaultPhysicalOutputDevice
    \/ PollEvents

Spec == Init /\ [][Next]_vars

\* the listener and the event queue: the methods of the notification client run
\* against poll_events
ActiveRender == [state |-> DEVICE_STATE_ACTIVE, flows |-> {"eRender"}]
DisabledCapture == [state |-> DEVICE_STATE_DISABLED, flows |-> {"eCapture"}]

EventsInit ==
    /\ inst = "uninit"
    /\ os_endpoints \in [Ids -> {ActiveRender, DisabledCapture}]
    /\ os_callbacks = {}
    /\ os_raised = <<>>
    /\ physical_devices = EmptyRegistry
    /\ event_queue = <<>>
    /\ polled = <<>>
    /\ clients = [id \in Ids |-> NoClient]
    /\ fences = <<>>
    /\ devices = <<>>
    /\ sessions = <<>>
    /\ rt_thread = NoPromotion
    /\ ret = NoCall

EventsNext ==
    \/ InstanceCreate
    \/ OnDeviceStateChanged
    \/ OnDeviceAdded
    \/ OnDeviceRemoved
    \/ OnDefaultDeviceChanged
    \/ OnPropertyValueChanged
    \/ PollEvents

ListenerInit == FmtIdle /\ EventsInit

SpecEvents == ListenerInit /\ [][EventsNext]_vars

\* hot-plug: the OS adds, removes and changes endpoints while the Instance exists
HotplugInit ==
    /\ FmtIdle
    /\ inst = "uninit"
    /\ os_endpoints \in [Ids -> {Absent, ActiveRender, DisabledCapture}]
    /\ os_callbacks = {}
    /\ os_raised = <<>>
    /\ physical_devices = EmptyRegistry
    /\ event_queue = <<>>
    /\ polled = <<>>
    /\ clients = [id \in Ids |-> NoClient]
    /\ fences = <<>>
    /\ devices = <<>>
    /\ sessions = <<>>
    /\ rt_thread = NoPromotion
    /\ ret = NoCall

HotplugNext ==
    \/ InstanceCreate
    \/ OsDeviceAdded
    \/ OsDeviceRemoved
    \/ OsDeviceStateChanged
    \/ OsDefaultChanged
    \/ EnumeratePhysicalDevices
    \/ DefaultPhysicalInputDevice
    \/ DefaultPhysicalOutputDevice
    \/ PollEvents

SpecHotplug == HotplugInit /\ [][HotplugNext]_vars

\* the Devices of an Instance: creation, the buffer cycle, destruction
DeviceNext ==
    \/ InstanceCreate
    \/ CreateDevice
    \/ DropDevice
    \/ Start
    \/ Stop
    \/ SubmitBuffers
    \/ BackendPeriod

\* two endpoints: an active render endpoint, and a disabled capture endpoint
\* (which the registry records without an audio client)
DeviceOsConfigs ==
    { [id \in Ids |-> IF id = 1 THEN ActiveRender ELSE IF id = 2 THEN DisabledCapture ELSE Absent] }

DeviceInit ==
    /\ FmtIdle
    /\ inst = "uninit"
    /\ os_endpoints \in DeviceOsConfigs
    /\ os_callbacks = {}
    /\ os_raised = <<>>
    /\ physical_devices = EmptyRegistry
    /\ event_queue = <<>>
    /\ polled = <<>>
    /\ clients = [id \in Ids |-> NoClient]
    /\ fences = <<>>
    /\ devices = <<>>
    /\ sessions = <<>>
    /\ rt_thread = NoPromotion
    /\ ret = NoCall

SpecDevice == DeviceInit /\ [][DeviceNext]_vars

\* the life of an Instance and its Devices, up to their destruction
TeardownNext ==
    \/ InstanceCreate
    \/ CreateDevice
    \/ DropDevice
    \/ DropInstance

SpecTeardown == DeviceInit /\ [][TeardownNext]_vars

\* the format query of an Instance
SupportNext ==
    \/ InstanceCreate
    \/ PhysicalDeviceSupportsFormat

SpecSupport == DeviceInit /\ [][SupportNext]_vars

\* the Sessions of an Instance
SessionNext ==
    \/ InstanceCreate
    \/ CreateSession
    \/ DropSession

SpecSession == DeviceInit /\ [][SessionNext]_vars

\* the format negotiator alone, over every FrameDesc of the bounded sets
InstIdle ==
    /\ inst = "uninit"
    /\ os_endpoints = [id \in Ids |-> Absent]
    /\ os_callbacks = {}
    /\ os_raised = <<>>
    /\ physical_devices = EmptyRegistry
    /\ event_queue = <<>>
    /\ polled = <<>>
    /\ clients = [id \in Ids |-> NoClient]
    /\ fences = <<>>
    /\ devices = <<>>
    /\ sessions = <<>>
    /\ rt_thread = NoPromotion
    /\ ret = NoCall

FmtNext == Encode \/ Decode

FormatInit == FmtInit /\ InstIdle

SpecFormat == FormatInit /\ [][FmtNext]_vars

\* the decoder on its own, over a native descriptor of the backend
DecodeInit ==
    /\ fmt_pc = "encoded"
    /\ fmt_in = None
    /\ fmt_native \in {Some(d) : d \in NativeDescs}
    /\ fmt_out = None
    /\ InstIdle

DecodeNext == Decode

SpecDecode == DecodeInit /\ [][DecodeNext]_vars

\* the Fence: created, waited on, signaled, closed. A wait that can return does
\* return: the OS schedules the waiting thread.
FenceNext ==
    \/ FenceCreate
    \/ WaitCall
    \/ WaitReturn
    \/ FenceSignal
    \/ FenceDestroy

FenceInit == FmtIdle /\ InstIdle

SpecFence == FenceInit /\ [][FenceNext]_vars /\ WF_vars(WaitReturn)

\* C1: create_device called with both channels.input and channels.output non-empty
\* returns Err(Validation), whatever the physical device, sharing mode, sample format
\* and sample rate.
C1_DuplexRejected ==
    (ret.op = "create_device" /\ ret.args.channels.input # {} /\ ret.args.channels.output # {})
        => ret.result = "Err_Validation"

C1_Witness ==
    /\ ret.op = "create_device"
    /\ ret.args.channels.input # {} /\ ret.args.channels.output # {}
    /\ ret.args.desc.format = "F32" /\ ret.args.desc.sharing = "Concurrent"
    /\ ret.result = "Err_Validation"
    /\ Len(devices) = 1

\* C2: after Instance::create the registry has exactly the ids the capture pass or
\* the render pass enumerated, one entry each, and an entry's stream flags are the
\* union of the flags of the passes its id appeared in.
C2_MergedFlags ==
    ret.op = "create" =>
        LET cap == Range(ret.capture)
            ren == Range(ret.render)
        IN /\ DOMAIN physical_devices = cap \cup ren
           /\ \A id \in cap \cup ren :
                 physical_devices[id].streams =
                     (IF id \in cap THEN {"INPUT"} ELSE {}) \cup (IF id \in ren THEN {"OUTPUT"} ELSE {})

C2_Witness ==
    /\ ret.op = "create"
    /\ \E id \in Range(ret.capture) \cap Range(ret.render) :
          physical_devices[id].streams = {"INPUT", "OUTPUT"}
    /\ \E id \in Range(ret.render) \ Range(ret.capture) : physical_devices[id].streams = {"OUTPUT"}

\* C3: a submit_buffers call whose fence wait elapsed without the fence having
\* been signaled returns Err(Timeout); it does not return Ok.
C3_TimeoutReported ==
    (ret.op = "submit_buffers" /\ ret.wait = "timeout" /\ ret.result \notin {"panic", "crash"})
        => ret.result = "Err_Timeout"

\* C4: for a request of Format::U32 with exactly one direction's channel mask
\* non-empty the encoder returns None and create_device returns Err(Validation).
C4_U32Rejected ==
    (/\ ret.op = "create_device"
     /\ ret.args.desc.format = "U32"
     /\ (ret.args.channels.input = {}) # (ret.args.channels.output = {}))
        => /\ map_frame_desc([ format      |-> ret.args.desc.format,
                               channels    |-> ret.args.channels.input \cup ret.args.channels.output,
                               sample_rate |-> ret.args.desc.sample_rate ]) = None
           /\ ret.result = "Err_Validation"

\* C5: poll_events invokes the handler once for each Event that was in the queue,
\* in the order they were enqueued, and returns Ok.
C5_HandlerPerEvent ==
    ret.op = "poll_events" => (ret.result = "Ok" /\ ret.handler_calls = ret.queued)

\* C6: every device-added, device-removed, state-changed or (console) default-changed
\* notification the OS raised while the Instance exists is an Event in the queue or
\* an Event poll_events has taken from it.
C6_NotificationsQueued ==
    \A i \in 1..Len(os_raised) :
        LET n == os_raised[i]
        IN (n.type = "Default" => n.role = "eConsole")
              => \E e \in Range(event_queue) \cup Range(polled) :
                    e.type = n.type /\ e.device = n.device

\* C7: the default device queries resolve the endpoint the OS reports to the
\* registry entry of the same id, and fail with NotFound, without aborting, when the
\* registry has no entry of that id.
C7_DefaultResolvesOrNotFound ==
    ret.op \in {"default_physical_input_device", "default_physical_output_device"} =>
        IF ret.os_default = NullId THEN ret.result = "None"
        ELSE IF ret.os_default \in DOMAIN physical_devices
             THEN ret.result = "Some" /\ ret.device = ret.os_default
             ELSE ret.result = "NotFound"

\* C8: each native stream handle (audio client) and each Fence is owned by at most
\* one live Device and is released exactly once: never twice, and once its Device
\* has been destroyed.
C8_ExclusiveOwnership ==
    /\ \A c \in Ids :
          /\ Cardinality({d \in Live : devices[d].client = c}) <= 1
          /\ clients[c].releases <= 1
    /\ \A f \in 1..Len(fences) :
          /\ Cardinality({d \in Live : devices[d].fence = f}) <= 1
          /\ fences[f].closed <= 1
    /\ inst = "created" =>
          \A d \in (1..Len(devices)) \ Live :
              /\ clients[devices[d].client].releases = 1
              /\ fences[devices[d].fence].closed = 1

\* C9: decoding the native descriptor an F32 FrameDesc (any subset of the three
\* front channels, any of the sample rates) was encoded to yields Ok of an equal
\* FrameDesc.
C9_RoundTrip ==
    (fmt_pc = "decoded" /\ fmt_in.format = "F32")
        => fmt_out = Ok(fmt_in)

C9_Witness ==
    /\ fmt_pc = "decoded"
    /\ fmt_in = [format |-> "F32", channels |-> {"FRONT_LEFT", "FRONT_RIGHT"}, sample_rate |-> 48000]
    /\ fmt_out.ok

\* C10: in every submit_buffers call the frame count handed to the callback and
\* the frame count released are at most the buffer capacity of the Device's
\* StreamProperties.
C10_FramesWithinCapacity ==
    ret.op = "submit_buffers" =>
        /\ \A i \in 1..Len(ret.callback_calls) : ret.callback_calls[i] <= ret.capacity
        /\ \A i \in 1..Len(ret.released) : ret.released[i] <= ret.capacity

C10_Witness ==
    /\ ret.op = "submit_buffers"
    /\ ret.result = "Ok"
    /\ ret.callback_calls = <<ret.frames>>
    /\ 0 < ret.frames /\ ret.frames < ret.capacity
    /\ clients[devices[ret.device].client].padding = ret.capacity

\* C11: a submit_buffers call on an output Device that acquires a buffer requests
\* from the backend exactly the Device's capacity minus the padding the backend
\* holds at that moment, and hands the callback StreamBuffers of that many frames.
C11_RequestsCapacityMinusPadding ==
    (ret.op = "submit_buffers" /\ ret.result = "Ok"
        /\ devices[ret.device].device_stream.tag = "Output")
        => /\ ret.requested = <<ret.capacity - ret.padding>>
           /\ ret.callback_calls = ret.requested

C11_Witness ==
    /\ ret.op = "submit_buffers" /\ ret.result = "Ok"
    /\ devices[ret.device].device_stream.tag = "Output"
    /\ ret.padding > 0 /\ ret.padding < ret.capacity
    /\ ret.requested = <<ret.capacity - ret.padding>>

\* C12: in every submit_buffers call that acquires a buffer, the frame count
\* passed to the backend's release call is the frame count the acquire step of
\* that call reported, however many frames the callback wrote.
C12_ReleaseMatchesAcquire ==
    (ret.op = "submit_buffers" /\ ret.result = "Ok")
        => ret.released = <<ret.frames>>

C12_Witness ==
    /\ ret.op = "submit_buffers" /\ ret.result = "Ok"
    /\ ret.frames > 0 /\ ret.written = 0
    /\ ret.released = <<ret.frames>>

\* C13: a physical_device_supports_format call that returns asked the backend
\* about the requested format under the requested sharing mode, and returns true
\* exactly when the backend answered that this format is supported; a closest-match
\* answer gives false.
C13_ExactFormatOnly ==
    (ret.op = "physical_device_supports_format" /\ ret.result \in {"true", "false"})
        => /\ Len(ret.asked) = 1
           /\ ret.asked[1].sharing = map_sharing_mode(ret.args.sharing)
           /\ map_waveformat(ret.asked[1].wave_format) = Ok(ret.args.frame_desc)
           /\ (ret.result = "true") <=> (ret.asked[1].hr = S_OK)
           /\ ret.asked[1].hr = S_FALSE => ret.result = "false"

C13_Witness ==
    /\ ret.op = "physical_device_supports_format"
    /\ ret.args.sharing = "Concurrent"
    /\ ret.asked # <<>> /\ ret.asked[1].hr = S_FALSE
    /\ ret.result = "false"

\* C14: a create_device call that fails because the request is duplex or because
\* the format cannot be negotiated leaves no native resource behind: no Fence has
\* been created and no audio client has been initialized or wired to an event.
C14_NoResourceOnFailure ==
    [][ (/\ CreateDevice
         /\ ret'.result \in {"Err_Validation", "panic"}
         /\ (IsDuplex(ret'.args.channels) \/ ret'.args.desc.format = "U32"))
            => (fences' = fences /\ clients' = clients) ]_vars

\* C15: create_device returns Ok(Device) only if the backend's Initialize call
\* accepted the requested format and sharing mode; when Initialize reports
\* failure no Device is returned.
C15_OkOnlyIfInitialized ==
    (ret.op = "create_device" /\ ret.result = "Ok") => ret.initialize = <<TRUE>>

\* C18: the StreamProperties of a Device (channel mask, sample rate, buffer
\* capacity) never change once create_device has returned it: no start, stop or
\* submit_buffers call, nor any other step, alters them.
C18_PropertiesFixed ==
    [][ \A d \in 1..Len(devices) : devices'[d].stream = devices[d].stream ]_vars

C18_Witness ==
    /\ ret.op = "submit_buffers" /\ ret.result = "Ok"
    /\ ret.padding > 0
    /\ clients[devices[ret.device].client].started
    /\ devices[ret.device].stream =
          [channels |-> {"FRONT_LEFT", "FRONT_RIGHT"}, sample_rate |-> 48000,
           buffer_size |-> MaxCapacity]

\* C19: the channel mask and the sample rate of the StreamProperties of a Device
\* create_device returned are the ones requested in the Channels and the
\* DeviceDesc of the call and accepted by the backend, in either sharing mode.
C19_PropertiesAsRequested ==
    (/\ ret.op = "create_device" /\ ret.result = "Ok"
     /\ ret.initialize = <<TRUE>> /\ ret.args.channels.output # {})
        => /\ devices[ret.device].stream.channels = ret.args.channels.output
           /\ devices[ret.device].stream.sample_rate = ret.args.desc.sample_rate

\* C16: enumerate_physical_devices returns exactly the registry entries whose
\* recorded state has the active flag set: each of them once, and no entry
\* recorded as disabled, not present or unplugged.
C16_ActiveEntriesOnly ==
    ret.op = "enumerate_physical_devices" =>
        /\ Range(ret.devices) =
              {id \in DOMAIN physical_devices : physical_devices[id].state % 2 = DEVICE_STATE_ACTIVE}
        /\ Cardinality(Range(ret.devices)) = Len(ret.devices)

C16_Witness ==
    /\ ret.op = "enumerate_physical_devices"
    /\ Len(ret.devices) = 1
    /\ \E id \in DOMAIN physical_devices :
          physical_devices[id].state \in {DEVICE_STATE_DISABLED, DEVICE_STATE_UNPLUGGED}

\* C20: poll_events called while the event queue is empty returns Ok, calls the
\* handler zero times and leaves the registry and the queue as they were; an empty
\* poll that follows an empty poll returns the same.
C20_EmptyPollIsNoOp ==
    [][ (PollEvents /\ event_queue = <<>>)
            => /\ ret'.result = "Ok"
               /\ ret'.handler_calls = <<>>
               /\ physical_devices' = physical_devices
               /\ event_queue' = event_queue
               /\ (ret.op = "poll_events" /\ ret.queued = <<>>) => ret' = ret ]_vars

C20_Witness ==
    /\ ret.op = "poll_events"
    /\ ret.queued = <<>> /\ ret.result = "Ok"
    /\ event_queue = <<>>
    /\ polled # <<>>

C21_StopIdempotent ==
    [][ (/\ Stop
         /\ ~clients[devices[ret'.device].client].started)
            => /\ ret'.result = "Ok"
               /\ clients' = clients
               /\ fences' = fences
               /\ devices' = devices ]_vars

\* C22: a Fence is created unsignaled, and a wait with timeout 0 on a fence that
\* is not signaled returns, with the timeout outcome and without changing the
\* fence: it does not block.
C22_ZeroTimeoutReturns ==
    /\ [][ /\ FenceCreate => ~fences'[Len(fences')].signaled
           /\ (WaitReturn /\ ~fences[ret.fence].signaled)
                 => (ret'.outcome = "timeout" /\ fences' = fences) ]_vars
    /\ (Waiting /\ ret.timeout_ms = 0) ~> (ret.op = "wait" /\ ret.pc = "returned")

C22_Witness ==
    /\ ret.op = "wait" /\ ret.pc = "returned"
    /\ ret.timeout_ms = 0 /\ ret.outcome = "timeout"
    /\ ~fences[ret.fence].signaled

\* C23: the backend calls and the callback of every submit_buffers call come in
\* rounds of get-buffer, callback, release-buffer: each call starts and ends with
\* no buffer outstanding, so over any sequence of calls on a Device get-buffer and
\* release-buffer alternate, the callback runs once inside each pair and never
\* outside one, and at most one buffer is outstanding.
C23_AcquireCallbackRelease ==
    ret.op = "submit_buffers" =>
        /\ Len(ret.calls) % 3 = 0
        /\ \A i \in 1..Len(ret.calls) :
              ret.calls[i] = CASE i % 3 = 1 -> "GetBuffer"
                               [] i % 3 = 2 -> "callback"
                               [] i % 3 = 0 -> "ReleaseBuffer"
        /\ Len(ret.callback_calls) * 3 = Len(ret.calls)
        /\ Len(ret.released) * 3 = Len(ret.calls)

C23_Witness ==
    /\ ret.op = "submit_buffers" /\ ret.result = "Ok"
    /\ ret.calls = <<"GetBuffer", "callback", "ReleaseBuffer">>
    /\ ret.padding = ret.capacity

\* C27: the Fence a Device waits on is created unsignaled and is auto-reset: a
\* wait on a signaled fence returns signaled and leaves the fence unsignaled, and
\* a wait on an unsignaled fence times out; so one signal of the backend
\* satisfies one wait, and the next wait without a new signal times out.
C27_AutoReset ==
    [][ /\ FenceCreate => fences'[Len(fences')] = [signaled |-> FALSE, closed |-> 0]
        /\ WaitReturn =>
              IF fences[ret.fence].signaled
              THEN ret'.outcome = "signaled" /\ ~fences'[ret.fence].signaled
              ELSE ret'.outcome = "timeout" /\ fences'[ret.fence] = fences[ret.fence] ]_vars

C27_Witness ==
    /\ ret.op = "wait" /\ ret.pc = "returned"
    /\ ret.outcome = "signaled"
    /\ ret.timeout_ms = INFINITE
    /\ ~fences[ret.fence].signaled

\* C24: the enumeration of Instance::create activates an audio client for an
\* endpoint only if the endpoint's state has the active flag; an entry inserted for
\* a disabled, not-present or unplugged endpoint has a null audio client and no
\* client was activated for it.
C24_ActivateOnlyActive ==
    inst # "uninit" =>
        \A id \in Ids :
            LET active == os_endpoints[id].state % 2 = DEVICE_STATE_ACTIVE
            IN /\ clients[id].activated => (active /\ id \in DOMAIN physical_devices)
               /\ (id \in DOMAIN physical_devices /\ ~active)
                     => (physical_devices[id].audio_client = NullId /\ ~clients[id].activated)

C24_Witness ==
    /\ ret.op = "create"
    /\ \E id \in DOMAIN physical_devices :
          /\ os_endpoints[id].state = DEVICE_STATE_UNPLUGGED
          /\ physical_devices[id].audio_client = NullId /\ ~clients[id].activated
    /\ \E id \in DOMAIN physical_devices :
          /\ os_endpoints[id].state = DEVICE_STATE_ACTIVE
          /\ physical_devices[id].audio_client = id /\ clients[id].activated

\* C25: a method of the hot-plug listener, run between any two operations of the
\* application thread, appends at most one Event to the queue and returns S_OK;
\* the registry, the Devices and their clients and fences, the Sessions and the
\* record of the application's calls (no user handler runs) are left untouched.
C25_ListenerOnlyQueues ==
    /\ [][ Len(event_queue') > Len(event_queue)
            => /\ event_queue' = Append(event_queue, event_queue'[Len(event_queue')])
               /\ UNCHANGED <<inst, physical_devices, polled, clients, fences, devices,
                              sessions, rt_thread, ret>> ]_vars
    /\ [](\A id \in Ids :
            LET Within(r) == /\ r.hr = S_OK
                             /\ Len(r.queue) \in {Len(event_queue), Len(event_queue) + 1}
                             /\ SubSeq(r.queue, 1, Len(event_queue)) = event_queue
            IN /\ Within(on_device_added(event_queue, id))
               /\ Within(on_device_removed(event_queue, id))
               /\ Within(on_property_value_changed(event_queue, id))
               /\ \A state \in DeviceStates :
                     Within(on_device_state_changed(event_queue, id, state))
               /\ \A flow \in Flows, role \in Roles :
                     Within(on_default_device_changed(event_queue, flow, role, id)))

C25_Witness ==
    /\ inst = "created"
    /\ ret.op = "poll_events"
    /\ Len(event_queue) = 1 /\ event_queue[1].type = "Removed"
    /\ polled # <<>>

\* C26: in every interleaving of the listener's sends and the drains of
\* poll_events, the drained events followed by the queued ones are the sent events
\* in send order: a step either keeps that sequence or appends one event to it,
\* and a drain moves the whole queue, in order, behind what was drained before.
C26_FifoExactlyOnce ==
    [][ LET sent == polled \o event_queue
            sent_after == polled' \o event_queue'
        IN /\ \/ sent_after = sent
              \/ /\ Len(sent_after) = Len(sent) + 1
                 /\ SubSeq(sent_after, 1, Len(sent)) = sent
                 /\ polled' = polled
           /\ polled' # polled
                => /\ polled' = polled \o event_queue
                   /\ event_queue' = <<>>
                   /\ ret'.received = event_queue ]_vars

C26_Witness ==
    /\ ret.op = "poll_events"
    /\ Len(ret.received) = 2
    /\ ret.received[1] # ret.received[2]
    /\ polled = ret.received
    /\ event_queue = <<>>

\* C28: once poll_events has drained a Removed(id) event, or a Changed{id, state}
\* event whose state is not active, and no later drained event is about id, the
\* registry reflects it: enumerate_physical_devices no longer returns id.
C28_RegistryFollowsEvents ==
    \A i \in 1..Len(polled) :
        LET e == polled[i]
            Latest == \A j \in (i + 1)..Len(polled) : polled[j].device # e.device
            Gone == \/ e.type = "Removed"
                    \/ e.type = "Changed" /\ ~HasBit(e.state, DEVICE_STATE_ACTIVE)
        IN (inst = "created" /\ Latest /\ Gone)
             => \A k \in 1..Len(enumerate_physical_devices(physical_devices)) :
                    enumerate_physical_devices(physical_devices)[k] # e.device

\* C29: decoding a native descriptor gives Err(Validation) when its format tag is
\* not the extensible tag, and when it is extensible but its sub-format is not
\* IEEE float or its valid bits per sample are not 32; otherwise Ok with F32.
C29_DecodeValidation ==
    fmt_pc = "decoded"
      => LET d == fmt_native.value
             Refused == \/ d.wFormatTag # WAVE_FORMAT_EXTENSIBLE
                        \/ d.SubFormat # KSDATAFORMAT_SUBTYPE_IEEE_FLOAT
                        \/ d.Samples # 32
         IN IF Refused
            THEN fmt_out = ErrValidation
            ELSE fmt_out.ok /\ fmt_out.value.format = "F32"

C29_Witness ==
    /\ fmt_pc = "decoded"
    /\ fmt_in = None
    /\ fmt_native.value.wFormatTag = WAVE_FORMAT_EXTENSIBLE
    /\ fmt_native.value.SubFormat = KSDATAFORMAT_SUBTYPE_IEEE_FLOAT
    /\ fmt_native.value.Samples = 24
    /\ fmt_out = ErrValidation

\* C30: the native descriptor an F32 FrameDesc is encoded to has 32 bits per
\* sample, a channel count equal to the number of channels of the FrameDesc and to
\* the number of set bits of dwChannelMask, a block alignment of 4 times the
\* channel count and a byte rate of block alignment times sample rate; the 16-bit
\* fields hold their values untruncated and the rate is the requested one.
C30_EncodedFields ==
    (fmt_pc \in {"encoded", "decoded"} /\ fmt_in.format = "F32")
      => LET d == fmt_native.value
             SetBits == {k \in 0..30 : HasBit(d.dwChannelMask, 2 ^ k)}
         IN /\ fmt_native # None
            /\ d.wBitsPerSample = 32
            /\ d.nChannels = Cardinality(fmt_in.channels)
            /\ d.nChannels = Cardinality(SetBits)
            /\ d.nBlockAlign = 4 * Cardinality(fmt_in.channels)
            /\ d.nSamplesPerSec = fmt_in.sample_rate
            /\ d.nAvgBytesPerSec = d.nBlockAlign * fmt_in.sample_rate
            /\ d.nAvgBytesPerSec = 4 * Cardinality(fmt_in.channels) * fmt_in.sample_rate
            /\ 4 * Cardinality(fmt_in.channels) < U16
            /\ d.nAvgBytesPerSec \div U16 < U16

C30_Witness ==
    /\ fmt_pc = "encoded"
    /\ fmt_in = [format |-> "F32", channels |-> ChannelNames, sample_rate |-> 96000]
    /\ fmt_native.value.nChannels = 3
    /\ fmt_native.value.nBlockAlign = 12
    /\ fmt_native.value.nAvgBytesPerSec = 1152000

C32_HandlesReleasedOnce ==
    /\ ret.op = "drop_instance"
          => \A h \in {"enumerator", "notifier"} :
                Cardinality({i \in 1..Len(ret.released) : ret.released[i] = h}) = 1
    /\ (inst = "dropped" /\ Live = {})
          => \A id \in Ids : clients[id].activated => clients[id].releases = 1

\* C33: create_device with channels.input and channels.output both empty passes
\* the duplex check; it builds a FrameDesc with an empty channel mask, encoded
\* with zero channels, and the Device it returns is bound to DeviceStream::Output.
\* A returned Device is bound to Input exactly when channels.input is non-empty.
C33_EmptyRequestIsOutput ==
    ret.op = "create_device"
      => /\ (ret.args.channels.input = {} /\ ret.args.channels.output = {})
               => /\ ret.result # "Err_Validation"
                  /\ Len(ret.frame_desc) = 1
                  /\ ret.frame_desc[1].channels = {}
                  /\ ret.frame_desc[1].format = "F32"
                       => map_frame_desc(ret.frame_desc[1]).value.nChannels = 0
                  /\ ret.result = "Ok"
                       => devices[ret.device].device_stream.tag = "Output"
         /\ ret.result = "Ok"
               => (devices[ret.device].device_stream.tag = "Input"
                     <=> ret.args.channels.input # {})

C33_Witness ==
    /\ ret.op = "create_device"
    /\ ret.args.channels.input = {} /\ ret.args.channels.output = {}
    /\ ret.args.desc.format = "F32"
    /\ ret.result = "Ok"
    /\ ret.frame_desc[1].channels = {}
    /\ devices[ret.device].device_stream.tag = "Output"
    /\ devices[ret.device].live

====
